---- MODULE Spec2Model ----
(***************************************************************************)
(* Model of Backend/server.js: an Express application with four routes     *)
(* (admin register, admin login, admin dashboard, user register) over a    *)
(* MySQL connection pool.                                                  *)
(*                                                                         *)
(* Every request is a process.  A step of a request is what the event loop *)
(* runs atomically: the completion of the promise the handler awaits,      *)
(* followed by the handler's code up to its next await (or its end).  The  *)
(* store applies one statement at a time; statements issued through        *)
(* pool.query see and change committed rows only, statements issued on a   *)
(* checked-out connection between beginTransaction and commit work on rows *)
(* that stay invisible to every other connection until commit.             *)
(***************************************************************************)
EXTENDS Integers, Sequences, FiniteSets, TLC

\* ------------------------------------------------------------------ bounds
\* Requests of one run when all four routes are served (request ids are
\* assigned in arrival order).
MaxReqs == 2
\* Requests of one run when only the admin routes are served.
MaxAdminReqs == 3
\* Longest text after the scheme in an Authorization header.
MaxTail == 3

Reqs == 1..(IF MaxReqs > MaxAdminReqs THEN MaxReqs ELSE MaxAdminReqs)

\* ------------------------------------------------------------ input domains
\* A missing JSON field (undefined) and the empty string are both falsy in
\* the handlers' checks; "" stands for both.

\* Bodies of POST /admin/register and POST /admin/login: every pair of two
\* emails and two passwords, and one with each of the required fields missing.
AdminBodies ==
    {[email |-> e, password |-> p] :
        e \in {"ada@example.com", "bob@example.com"}, p \in {"pw1", "pw2"}}
    \cup {[email |-> "", password |-> "pw1"],
          [email |-> "ada@example.com", password |-> ""]}
\* Bodies of POST /user/register: two complete ones, and one with each of the
\* required fields missing.
UserBodies ==
    {[first_name |-> "Ada", last_name |-> "Lovelace", email |-> "ada@example.com"],
     [first_name |-> "Bob", last_name |-> "Byron", email |-> "bob@example.com"],
     [first_name |-> "", last_name |-> "Lovelace", email |-> "ada@example.com"],
     [first_name |-> "Ada", last_name |-> "", email |-> "ada@example.com"],
     [first_name |-> "Ada", last_name |-> "Lovelace", email |-> ""]}
\* crypto.randomBytes(32).toString('hex'): any value of the key space may come
\* out, the same one twice included.
KeySpace   == {"k1", "k2"}

\* ----------------------------------------------------------------- strings
\* Header values are sequences of one-character strings.
NoHeader == <<"undefined">>
Bearer   == <<"B", "e", "a", "r", "e", "r", " ">>

\* process.env.API_DUMMY_TOKEN
ADMIN_TOKEN_DUMMY == <<"s">>

RECURSIVE SeqsUpTo(_, _)
SeqsUpTo(S, n) ==
    IF n = 0 THEN {<<>>}
    ELSE LET shorter == SeqsUpTo(S, n - 1)
         IN  shorter \cup {Append(s, c) : s \in shorter, c \in S}

\* Node's HTTP parser strips leading and trailing blanks of a header value.
Trimmed(h) == h = <<>> \/ (h[1] # " " /\ h[Len(h)] # " ")

Schemes == {<<>>, <<"B", "e", "a", "r", "e", "r">>, Bearer,
            <<"b", "e", "a", "r", "e", "r", " ">>}

Headers ==
    {NoHeader} \cup
    {h \in {p \o t : p \in Schemes, t \in SeqsUpTo({" ", "s", "x"}, MaxTail)} :
        Trimmed(h)}

\* The headers the other specifications send: none, a wrong token, the token.
PlainHeaders == {NoHeader, Bearer \o <<"x">>, Bearer \o ADMIN_TOKEN_DUMMY}

\* String.prototype.startsWith
startsWith(s, p) == Len(s) >= Len(p) /\ SubSeq(s, 1, Len(p)) = p

\* String.prototype.split with a one-character separator: the pieces between
\* the separators, empty pieces included.
RECURSIVE split(_, _)
split(s, sep) ==
    IF \A i \in 1..Len(s) : s[i] # sep THEN <<s>>
    ELSE LET i == CHOOSE j \in 1..Len(s) :
                     s[j] = sep /\ \A k \in 1..(j - 1) : s[k] # sep
         IN  <<SubSeq(s, 1, i - 1)>> \o split(SubSeq(s, i + 1, Len(s)), sep)

\* ------------------------------------------------------------------- state
VARIABLES
    pc,           \* per request: the await it is suspended at, "idle", "done"
    req,          \* per request: the route and the request's inputs
    resp,         \* per request: the responses written to it, in order
    trace,        \* per request: the steps its handler has run (history)
    hist,         \* per request: the handler's `newUserId`, and (history)
                  \* what the request saw when it ran
    connection,   \* per request: the handler's `connection` is set
    err,          \* per request: error.code of the error being handled
    pendingUser,  \* per request: users rows of its open transaction
    pendingKey,   \* per request: api_keys rows of its open transaction
    apiKey,       \* per request: the handler's `apiKey`
    dashUsers,    \* per request: the dashboard handler's `users`
    password_hash,\* per request: the admin register handler's `password_hash`
    admins,       \* committed rows of table admins
    users,        \* committed rows of table users
    api_keys,     \* committed rows of table api_keys
    nextId        \* AUTO_INCREMENT counter of each table

vars == <<pc, req, resp, trace, hist, connection, err, pendingUser, pendingKey,
          apiKey, dashUsers, password_hash, admins, users, api_keys, nextId>>

locals == <<connection, err, pendingUser, pendingKey, apiKey, dashUsers,
            password_hash>>
tables == <<admins, users, api_keys, nextId>>

Init ==
    /\ pc = [r \in Reqs |-> "idle"]
    /\ req = [r \in Reqs |-> [route |-> "none"]]
    /\ resp = [r \in Reqs |-> <<>>]
    /\ trace = [r \in Reqs |-> <<>>]
    /\ hist = [r \in Reqs |-> [newUserId |-> 0, prior |-> {}, skew |-> FALSE]]
    /\ connection = [r \in Reqs |-> FALSE]
    /\ err = [r \in Reqs |-> "none"]
    /\ pendingUser = [r \in Reqs |-> {}]
    /\ pendingKey = [r \in Reqs |-> {}]
    /\ apiKey = [r \in Reqs |-> ""]
    /\ dashUsers = [r \in Reqs |-> {}]
    /\ password_hash = [r \in Reqs |-> <<>>]
    /\ admins = {}
    /\ users = {}
    /\ api_keys = {}
    /\ nextId = [admins |-> 1, users |-> 1, api_keys |-> 1]

\* ----------------------------------------------------------------- helpers
\* A request arrives when every request with a smaller id has.
Arrives(r, n) ==
    /\ r <= n
    /\ pc[r] = "idle"
    /\ IF r = 1 THEN TRUE ELSE pc[r - 1] # "idle"

\* res.status(..).json(..)
Send(r, m) == resp' = [resp EXCEPT ![r] = Append(@, m)]

Ran(r, steps) == trace' = [trace EXCEPT ![r] = @ \o steps]

Goto(r, label) == pc' = [pc EXCEPT ![r] = label]

\* Connections checked out of the pool.  (The pool's limit, 10 by default, is
\* above the number of requests of a run: no getConnection is ever queued.)
CheckedOut == Cardinality({r \in Reqs : connection[r]})

\* ------------------------------------------------------------ credentials
\* A salted digest: the salt changes as the table grows.
hashPasswordSalted(password) == <<"sha256", password, Cardinality(admins)>>

\* crypto.createHash('sha256').update(password).digest('hex'): a function of
\* the password alone, one digest per password, never the password itself.
hashPassword(password) == <<"sha256", password>>

\* ------------------------------------------------------------------ store
\* The unique index on users.email, admins.email and api_keys.api_key.
HasEmail(rows, email) == \E row \in rows : row.email = email

HasKey(rows, key) == \E row \in rows : row.api_key = key

\* An INSERT that meets an uncommitted row with the same unique value waits
\* for the transaction that wrote it.
UserInsertWaits(r, email) ==
    \E o \in Reqs \ {r} : HasEmail(pendingUser[o], email)

KeyInsertWaits(r, key) ==
    \E o \in Reqs \ {r} : HasKey(pendingKey[o], key)

\* ---------------------------------------------------- POST /user/register
\* A catch block that echoes the generated key in its answer.
CatchResponseEcho(r, code) ==
    IF code = "ER_DUP_ENTRY"
    THEN [status |-> 409, message |-> "Email pengguna sudah terdaftar.",
          apiKey |-> apiKey[r]]
    ELSE [status |-> 500, message |-> "Gagal registrasi pengguna.",
          apiKey |-> apiKey[r]]

\* The response of request r's catch block, by error.code.
CatchResponse(r, code) ==
    IF code = "ER_DUP_ENTRY"
    THEN [status |-> 409, message |-> "Email pengguna sudah terdaftar."]
    ELSE [status |-> 500, message |-> "Gagal registrasi pengguna."]

Created(key) ==
    [status |-> 201, message |-> "Registrasi berhasil. API Key dibuat.",
     apiKey |-> key]

\* The release at the end of the try block instead of in a finally block.
FinallyInTry(r, held) ==
    IF held /\ pc[r] = "commit"
    THEN [connection |-> [connection EXCEPT ![r] = FALSE], steps |-> <<"release">>]
    ELSE [connection |-> connection, steps |-> <<>>]

\* finally { if (connection) connection.release(); }
\* `held` is the handler's `connection` when the block runs.
Finally(r, held) ==
    [connection |-> [connection EXCEPT ![r] = FALSE],
     steps |-> IF held THEN <<"release">> ELSE <<>>]

\* The end of the handler: the steps run and the finally block.
Finish(r, steps, held) ==
    /\ Ran(r, steps \o Finally(r, held).steps)
    /\ connection' = Finally(r, held).connection
    /\ Goto(r, "done")

\* An awaited call of the try block rejects with error.code `code`: the catch
\* block starts the rollback (the connection is set on every such path).
Catch(r, step, code) ==
    /\ err' = [err EXCEPT ![r] = code]
    /\ Ran(r, <<step>>)
    /\ Goto(r, "rollback")

\* The request arrives: validation, then pool.getConnection() is awaited.
UserRegister(r) ==
    /\ Arrives(r, MaxReqs)
    /\ \E body \in UserBodies :
        /\ req' = [req EXCEPT ![r] =
                     [route |-> "userRegister", first_name |-> body.first_name,
                      last_name |-> body.last_name, email |-> body.email]]
        /\ IF body.first_name = "" \/ body.last_name = "" \/ body.email = ""
           THEN /\ Send(r, [status |-> 400,
                    message |-> "Nama depan, nama belakang, dan email diperlukan."])
                /\ Ran(r, <<"respond">>)
                /\ Goto(r, "done")
           ELSE /\ Goto(r, "getConnection")
                /\ UNCHANGED <<resp, trace>>
    /\ UNCHANGED <<hist, locals, tables>>

\* pool.getConnection() resolves; connection.beginTransaction() is awaited.
GetConnectionOk(r) ==
    /\ pc[r] = "getConnection"
    /\ connection' = [connection EXCEPT ![r] = TRUE]
    /\ Ran(r, <<"getConnection">>)
    /\ Goto(r, "beginTransaction")
    /\ UNCHANGED <<req, resp, hist, err, pendingUser, pendingKey, apiKey,
                   dashUsers, password_hash, tables>>

\* pool.getConnection() rejects: catch with `connection` undefined (no
\* rollback), 500, finally with `connection` undefined (no release).
GetConnectionFail(r) ==
    /\ pc[r] = "getConnection"
    /\ err' = [err EXCEPT ![r] = "OTHER"]
    /\ Send(r, CatchResponse(r, "OTHER"))
    /\ Finish(r, <<"getConnectionFailed", "respond">>, connection[r])
    /\ UNCHANGED <<req, hist, pendingUser, pendingKey, apiKey, dashUsers, password_hash, tables>>

BeginTransactionOk(r) ==
    /\ pc[r] = "beginTransaction"
    /\ Ran(r, <<"beginTransaction">>)
    /\ Goto(r, "insertUser")
    /\ UNCHANGED <<req, resp, hist, locals, tables>>

BeginTransactionFail(r) ==
    /\ pc[r] = "beginTransaction"
    /\ Catch(r, "beginTransactionFailed", "OTHER")
    /\ UNCHANGED <<req, resp, hist, connection, pendingUser, pendingKey, apiKey,
                   dashUsers, password_hash, tables>>

\* The INSERT issued outside the transaction (autocommit).
InsertedUserAutocommit(r, row) ==
    [users |-> users \cup {row}, pending |-> pendingUser[r]]

\* What INSERT INTO users on the transaction's connection does to the rows.
InsertedUser(r, row) ==
    [users |-> users, pending |-> pendingUser[r] \cup {row}]

\* INSERT INTO users succeeds: the row takes the next id, generateApiKey()
\* draws the key, INSERT INTO api_keys is awaited.
InsertUserOk(r) ==
    /\ pc[r] = "insertUser"
    /\ ~HasEmail(users, req[r].email)
    /\ ~UserInsertWaits(r, req[r].email)
    /\ LET row == [id |-> nextId.users, first_name |-> req[r].first_name,
                   last_name |-> req[r].last_name, email |-> req[r].email]
       IN  /\ users' = InsertedUser(r, row).users
           /\ pendingUser' = [pendingUser EXCEPT ![r] = InsertedUser(r, row).pending]
    /\ nextId' = [nextId EXCEPT !.users = @ + 1]
    /\ hist' = [hist EXCEPT ![r].newUserId = nextId.users]
    /\ \E key \in KeySpace : apiKey' = [apiKey EXCEPT ![r] = key]
    /\ Ran(r, <<"insertUser">>)
    /\ Goto(r, "insertKey")
    /\ UNCHANGED <<req, resp, connection, err, pendingKey, dashUsers, password_hash,
                   admins, api_keys>>

\* INSERT INTO users rejects: ER_DUP_ENTRY when a committed row has the
\* email, any other store error at any time.
InsertUserFail(r) ==
    /\ pc[r] = "insertUser"
    /\ \E code \in {"ER_DUP_ENTRY", "OTHER"} :
        /\ code = "ER_DUP_ENTRY" => HasEmail(users, req[r].email)
        /\ Catch(r, "insertUserFailed", code)
    /\ UNCHANGED <<req, resp, hist, connection, pendingUser, pendingKey, apiKey,
                   dashUsers, password_hash, tables>>

\* INSERT INTO api_keys succeeds; connection.commit() is awaited.
InsertKeyOk(r) ==
    /\ pc[r] = "insertKey"
    /\ ~HasKey(api_keys, apiKey[r])
    /\ ~KeyInsertWaits(r, apiKey[r])
    /\ pendingKey' = [pendingKey EXCEPT ![r] =
           @ \cup {[id |-> nextId.api_keys, user_id |-> hist[r].newUserId,
                    api_key |-> apiKey[r]]}]
    /\ nextId' = [nextId EXCEPT !.api_keys = @ + 1]
    /\ Ran(r, <<"insertKey">>)
    /\ Goto(r, "commit")
    /\ UNCHANGED <<req, resp, hist, connection, err, pendingUser, apiKey,
                   dashUsers, password_hash, admins, users, api_keys>>

\* INSERT INTO api_keys rejects: ER_DUP_ENTRY when a committed row has the
\* key value, any other store error at any time.
InsertKeyFail(r) ==
    /\ pc[r] = "insertKey"
    /\ \E code \in {"ER_DUP_ENTRY", "OTHER"} :
        /\ code = "ER_DUP_ENTRY" => HasKey(api_keys, apiKey[r])
        /\ Catch(r, "insertKeyFailed", code)
    /\ UNCHANGED <<req, resp, hist, connection, pendingUser, pendingKey, apiKey,
                   dashUsers, password_hash, tables>>

\* connection.commit() resolves: the transaction's rows become visible, 201
\* with the key, finally.
CommitOk(r) ==
    /\ pc[r] = "commit"
    /\ users' = users \cup pendingUser[r]
    /\ api_keys' = api_keys \cup pendingKey[r]
    /\ pendingUser' = [pendingUser EXCEPT ![r] = {}]
    /\ pendingKey' = [pendingKey EXCEPT ![r] = {}]
    /\ Send(r, Created(apiKey[r]))
    /\ Finish(r, <<"commit", "respond">>, connection[r])
    /\ UNCHANGED <<req, hist, err, apiKey, dashUsers, password_hash, admins, nextId>>

CommitFail(r) ==
    /\ pc[r] = "commit"
    /\ Catch(r, "commitFailed", "OTHER")
    /\ UNCHANGED <<req, resp, hist, connection, pendingUser, pendingKey, apiKey,
                   dashUsers, password_hash, tables>>

\* connection.rollback() resolves: the transaction's rows are dropped, then
\* 409 or 500 by error.code, finally.
RollbackOk(r) ==
    /\ pc[r] = "rollback"
    /\ pendingUser' = [pendingUser EXCEPT ![r] = {}]
    /\ pendingKey' = [pendingKey EXCEPT ![r] = {}]
    /\ Send(r, CatchResponse(r, err[r]))
    /\ Finish(r, <<"rollback", "respond">>, connection[r])
    /\ UNCHANGED <<req, hist, err, apiKey, dashUsers, password_hash, tables>>

\* connection.rollback() rejects (the connection is lost; the store drops
\* the open transaction of a lost connection): the error leaves the catch
\* block before either res.status call, the finally block runs, and the
\* handler's promise rejects.  The handler has written no response and has
\* no other error handling.
RollbackFail(r) ==
    /\ pc[r] = "rollback"
    /\ pendingUser' = [pendingUser EXCEPT ![r] = {}]
    /\ pendingKey' = [pendingKey EXCEPT ![r] = {}]
    /\ Finish(r, <<"rollbackFailed">>, connection[r])
    /\ UNCHANGED <<req, resp, hist, err, apiKey, dashUsers, password_hash, tables>>

UserRegisterStep(r) ==
    \/ GetConnectionOk(r)
    \/ GetConnectionFail(r)
    \/ BeginTransactionOk(r)
    \/ BeginTransactionFail(r)
    \/ InsertUserOk(r)
    \/ InsertUserFail(r)
    \/ InsertKeyOk(r)
    \/ InsertKeyFail(r)
    \/ CommitOk(r)
    \/ CommitFail(r)
    \/ RollbackOk(r)
    \/ RollbackFail(r)

\* --------------------------------------------------- GET /admin/dashboard
\* adminAuthMiddleware: the status it answers, or "next".
adminAuthMiddleware(authHeader) ==
    IF authHeader = NoHeader \/ authHeader = <<>>
          \/ ~startsWith(authHeader, Bearer)
    THEN "401"
    ELSE LET token == split(authHeader, " ")[2]
         IN  IF token = ADMIN_TOKEN_DUMMY THEN "next" ELSE "403"

\* A dirty read: the rows of open transactions too.
SelectKeysDirty == api_keys \cup UNION {pendingKey[o] : o \in Reqs}

\* What SELECT ... FROM api_keys through the pool returns: committed rows.
SelectKeysRows == api_keys

\* The request arrives with one of the headers of H: the middleware answers
\* it, or calls the handler, which awaits the users query.
Dashboard(r, n, H) ==
    /\ Arrives(r, n)
    /\ \E h \in H :
        /\ req' = [req EXCEPT ![r] = [route |-> "dashboard", authorization |-> h]]
        /\ CASE adminAuthMiddleware(h) = "401" ->
                  /\ Send(r, [status |-> 401, message |-> "Autentikasi diperlukan."])
                  /\ Ran(r, <<"respond">>)
                  /\ Goto(r, "done")
             [] adminAuthMiddleware(h) = "403" ->
                  /\ Send(r, [status |-> 403, message |-> "Token admin tidak valid."])
                  /\ Ran(r, <<"respond">>)
                  /\ Goto(r, "done")
             [] OTHER ->
                  /\ Ran(r, <<"next">>)
                  /\ Goto(r, "selectUsers")
                  /\ UNCHANGED resp
    /\ UNCHANGED <<hist, locals, tables>>

DashboardFailed == [status |-> 500, message |-> "Gagal mengambil data dasbor."]

SelectUsersOk(r) ==
    /\ pc[r] = "selectUsers"
    /\ dashUsers' = [dashUsers EXCEPT ![r] = users]
    /\ Ran(r, <<"selectUsers">>)
    /\ Goto(r, "selectKeys")
    /\ UNCHANGED <<req, resp, hist, connection, err, pendingUser, pendingKey,
                   apiKey, password_hash, tables>>

SelectUsersFail(r) ==
    /\ pc[r] = "selectUsers"
    /\ Send(r, DashboardFailed)
    /\ Ran(r, <<"selectUsersFailed", "respond">>)
    /\ Goto(r, "done")
    /\ UNCHANGED <<req, hist, locals, tables>>

\* The keys query resolves: 200 with both lists.  (ORDER BY created_at DESC
\* orders the lists; the lists are kept as the sets of their rows.)
SelectKeysOk(r) ==
    /\ pc[r] = "selectKeys"
    /\ hist' = [hist EXCEPT ![r].skew = (users # dashUsers[r])]
    /\ Send(r, [status |-> 200, users |-> dashUsers[r], keys |-> SelectKeysRows])
    /\ Ran(r, <<"selectKeys", "respond">>)
    /\ Goto(r, "done")
    /\ UNCHANGED <<req, locals, tables>>

SelectKeysFail(r) ==
    /\ pc[r] = "selectKeys"
    /\ Send(r, DashboardFailed)
    /\ Ran(r, <<"selectKeysFailed", "respond">>)
    /\ Goto(r, "done")
    /\ UNCHANGED <<req, hist, locals, tables>>

DashboardStep(r) ==
    \/ SelectUsersOk(r)
    \/ SelectUsersFail(r)
    \/ SelectKeysOk(r)
    \/ SelectKeysFail(r)

\* --------------------------------------------------- POST /admin/register
\* The request arrives: validation, the hash, then the INSERT is awaited.
AdminRegister(r) ==
    /\ Arrives(r, MaxAdminReqs)
    /\ \E body \in AdminBodies :
        /\ req' = [req EXCEPT ![r] =
                     [route |-> "adminRegister", email |-> body.email,
                      password |-> body.password]]
        /\ IF body.email = "" \/ body.password = ""
           THEN /\ Send(r, [status |-> 400,
                            message |-> "Email dan password diperlukan."])
                /\ Ran(r, <<"respond">>)
                /\ Goto(r, "done")
                /\ UNCHANGED password_hash
           ELSE /\ password_hash' =
                       [password_hash EXCEPT ![r] = hashPassword(body.password)]
                /\ Goto(r, "insertAdmin")
                /\ UNCHANGED <<resp, trace>>
    /\ UNCHANGED <<hist, connection, err, pendingUser, pendingKey, apiKey,
                   dashUsers, tables>>

\* A table without the unique index.
AdminEmailNotChecked(email) == FALSE

\* Whether the store's unique index on admins.email rejects the INSERT.
AdminEmailTaken(email) == HasEmail(admins, email)

\* INSERT INTO admins resolves: 201.
InsertAdminOk(r) ==
    /\ pc[r] = "insertAdmin"
    /\ ~AdminEmailTaken(req[r].email)
    /\ admins' = admins \cup {[id |-> nextId.admins, email |-> req[r].email,
                              password_hash |-> password_hash[r]]}
    /\ nextId' = [nextId EXCEPT !.admins = @ + 1]
    /\ Send(r, [status |-> 201, message |-> "Admin berhasil didaftarkan."])
    /\ Ran(r, <<"insertAdmin", "respond">>)
    /\ Goto(r, "done")
    /\ UNCHANGED <<req, hist, locals, users, api_keys>>

\* INSERT INTO admins rejects: ER_DUP_ENTRY (409) when a row has the email,
\* any other store error (500) at any time.
InsertAdminFail(r) ==
    /\ pc[r] = "insertAdmin"
    /\ \E code \in {"ER_DUP_ENTRY", "OTHER"} :
        /\ code = "ER_DUP_ENTRY" => AdminEmailTaken(req[r].email)
        /\ err' = [err EXCEPT ![r] = code]
        /\ IF code = "ER_DUP_ENTRY"
           THEN Send(r, [status |-> 409, message |-> "Email admin sudah terdaftar."])
           ELSE Send(r, [status |-> 500, message |-> "Gagal mendaftarkan admin."])
    /\ Ran(r, <<"insertAdminFailed", "respond">>)
    /\ Goto(r, "done")
    /\ UNCHANGED <<req, hist, connection, pendingUser, pendingKey, apiKey,
                   dashUsers, password_hash, tables>>

\* ------------------------------------------------------ POST /admin/login
LoginOk ==
    [status |-> 200, message |-> "Login berhasil.", token |-> ADMIN_TOKEN_DUMMY]

\* An answer that tells the email is unknown.
NoSuchEmailTold == [status |-> 404, message |-> "Email tidak terdaftar."]

\* The answer when no admins row has the email.
NoSuchEmail == [status |-> 401, message |-> "Email atau password salah."]

\* The answer when the hashes differ.
WrongPassword == [status |-> 401, message |-> "Email atau password salah."]

\* The admin registrations that had answered 201 (history).
Registered == {o \in Reqs : /\ req[o].route = "adminRegister"
                            /\ resp[o] # <<>>
                            /\ resp[o][1].status = 201}

\* The request arrives: validation, then the SELECT is awaited.
AdminLogin(r) ==
    /\ Arrives(r, MaxAdminReqs)
    /\ \E body \in AdminBodies :
        /\ req' = [req EXCEPT ![r] =
                     [route |-> "adminLogin", email |-> body.email,
                      password |-> body.password]]
        /\ IF body.email = "" \/ body.password = ""
           THEN /\ Send(r, [status |-> 400,
                            message |-> "Email dan password diperlukan."])
                /\ Ran(r, <<"respond">>)
                /\ Goto(r, "done")
           ELSE /\ Goto(r, "selectAdmin")
                /\ UNCHANGED <<resp, trace>>
    /\ hist' = [hist EXCEPT ![r].prior = Registered]
    /\ UNCHANGED <<locals, tables>>

\* SELECT password_hash FROM admins WHERE email = ? resolves; the hash of the
\* supplied password is compared with the first row's.
SelectAdminOk(r) ==
    /\ pc[r] = "selectAdmin"
    /\ LET rows == {row \in admins : row.email = req[r].email}
       IN  IF rows = {}
           THEN /\ Send(r, NoSuchEmail)
                /\ Ran(r, <<"selectAdmin", "noRow", "respond">>)
           ELSE \E admin \in rows :
                  LET inputHash == hashPassword(req[r].password)
                  IN  IF inputHash = admin.password_hash
                      THEN /\ Send(r, LoginOk)
                           /\ Ran(r, <<"selectAdmin", "match", "respond">>)
                      ELSE /\ Send(r, WrongPassword)
                           /\ Ran(r, <<"selectAdmin", "mismatch", "respond">>)
    /\ Goto(r, "done")
    /\ UNCHANGED <<req, hist, locals, tables>>

SelectAdminFail(r) ==
    /\ pc[r] = "selectAdmin"
    /\ Send(r, [status |-> 500, message |-> "Gagal login."])
    /\ Ran(r, <<"selectAdminFailed", "respond">>)
    /\ Goto(r, "done")
    /\ UNCHANGED <<req, hist, locals, tables>>

AdminStep(r) ==
    \/ InsertAdminOk(r)
    \/ InsertAdminFail(r)
    \/ SelectAdminOk(r)
    \/ SelectAdminFail(r)

\* ---------------------------------------------------------- specifications
\* All four routes.
Next ==
    \E r \in Reqs :
        \/ UserRegister(r)
        \/ UserRegisterStep(r)
        \/ Dashboard(r, MaxReqs, PlainHeaders)
        \/ DashboardStep(r)
        \/ AdminRegister(r) /\ r <= MaxReqs
        \/ AdminLogin(r) /\ r <= MaxReqs
        \/ AdminStep(r)

Spec == Init /\ [][Next]_vars

\* User registrations and dashboard requests.
NextUser ==
    \E r \in Reqs :
        \/ UserRegister(r)
        \/ UserRegisterStep(r)
        \/ Dashboard(r, MaxReqs, PlainHeaders)
        \/ DashboardStep(r)

SpecUser == Init /\ [][NextUser]_vars

\* The admin routes alone.
NextAdmin ==
    \E r \in Reqs :
        \/ AdminRegister(r)
        \/ AdminLogin(r)
        \/ AdminStep(r)

SpecAdmin == Init /\ [][NextAdmin]_vars

\* The dashboard alone, under every header (two requests).
NextAuth ==
    \E r \in Reqs :
        \/ Dashboard(r, 2, Headers)
        \/ DashboardStep(r)

SpecAuth == Init /\ [][NextAuth]_vars

\* ------------------------------------------------------------- properties
Done(r) == pc[r] = "done"

Has(t, step) == \E i \in DOMAIN t : t[i] = step

Count(t, step) == Cardinality({i \in DOMAIN t : t[i] = step})

\* Position of the first occurrence of a step (0 when absent).
First(t, step) ==
    IF Has(t, step) THEN CHOOSE i \in DOMAIN t :
                              t[i] = step /\ \A j \in 1..(i - 1) : t[j] # step
    ELSE 0

Answered(r, status) == resp[r] # <<>> /\ resp[r][1].status = status

Registrations == {r \in Reqs : req[r].route = "userRegister"}
Dashboards    == {r \in Reqs : req[r].route = "dashboard"}
AdminRegs     == {r \in Reqs : req[r].route = "adminRegister"}
Logins        == {r \in Reqs : req[r].route = "adminLogin"}

\* The key values a response carries.
KeysIn(m) ==
    (IF "apiKey" \in DOMAIN m THEN {m.apiKey} ELSE {})
    \cup (IF "keys" \in DOMAIN m THEN {k.api_key : k \in m.keys} ELSE {})

Issued == {k.api_key : k \in api_keys}

\* Request r's 201 is the answer of the registration that created key v.
CreatedBy(r, v) ==
    /\ r \in Registrations
    /\ Answered(r, 201)
    /\ resp[r][1].apiKey = v
    /\ \E k \in api_keys : k.api_key = v /\ k.user_id = hist[r].newUserId

\* C1: in every committed state every api_keys row references an existing
\* users row and every users row has exactly one api_keys row; a finished
\* registration that answered 201 has added exactly one users row (with its
\* email) and exactly one api_keys row (with its key), and a finished
\* registration that failed, at whatever step, has left no users row.
C1_Atomicity ==
    /\ \A k \in api_keys : \E u \in users : u.id = k.user_id
    /\ \A u \in users : Cardinality({k \in api_keys : k.user_id = u.id}) = 1
    /\ \A u1, u2 \in users : u1.id = u2.id => u1 = u2
    /\ \A r \in Registrations :
         Done(r) =>
           LET mine     == {u \in users : u.id = hist[r].newUserId}
               myKeys   == {k \in api_keys : k.user_id = hist[r].newUserId}
           IN  IF Answered(r, 201)
               THEN /\ Cardinality(mine) = 1
                    /\ \A u \in mine : u.email = req[r].email
                    /\ Cardinality(myKeys) = 1
                    /\ \A k \in myKeys : k.api_key = apiKey[r]
               ELSE mine = {} /\ myKeys = {}
    /\ Cardinality(users) =
         Cardinality({r \in Registrations : Answered(r, 201)})

\* C1 witness: one registration has committed and another has finished
\* after its api_keys insert failed.
C1_Witness ==
    /\ \E r \in Registrations : Done(r) /\ Answered(r, 201)
    /\ \E r \in Registrations : Done(r) /\ Has(trace[r], "insertKeyFailed")

\* C2 (as claimed): a response that carries the value of an issued key is
\* the 201 of the registration that created the key, and no other.
C2_ShownOnce ==
    \A r \in Reqs : \A i \in DOMAIN resp[r] :
        \A v \in KeysIn(resp[r][i]) \cap Issued : CreatedBy(r, v)

\* C2 (amended): a response that carries the value of an issued key is the
\* 201 of the registration that created the key or a 200 of the dashboard;
\* every issued key is carried by exactly one registration response, and by
\* no response of admin register or admin login.
C2_ShownToOwnerAndDashboard ==
    /\ \A r \in Reqs : \A i \in DOMAIN resp[r] :
         \A v \in KeysIn(resp[r][i]) \cap Issued :
            \/ CreatedBy(r, v)
            \/ r \in Dashboards /\ resp[r][i].status = 200
    /\ \A v \in Issued :
         Cardinality({r \in Registrations :
                        \E i \in DOMAIN resp[r] : v \in KeysIn(resp[r][i])}) = 1

\* C2 witness: a dashboard answer carries a key that a registration's 201
\* has shown.
C2_Witness ==
    \E d \in Dashboards, r \in Registrations :
        /\ Answered(d, 200)
        /\ Answered(r, 201)
        /\ resp[r][1].apiKey \in KeysIn(resp[d][1]) \cap Issued

\* What the claim says the middleware does with a header.
C3_Expected(h) ==
    IF h = NoHeader \/ ~startsWith(h, Bearer) THEN "401"
    ELSE IF SubSeq(h, Len(Bearer) + 1, Len(h)) = ADMIN_TOKEN_DUMMY
         THEN "next" ELSE "403"

\* What the middleware did with request r.
C3_Outcome(r) ==
    IF Has(trace[r], "next") THEN "next"
    ELSE IF Answered(r, 401) THEN "401" ELSE "403"

\* C3 (as claimed): 401 when the header is absent or does not begin with
\* 'Bearer ', 403 when the text after 'Bearer ' is not the secret, and the
\* handler runs only when the text after 'Bearer ' is the secret.
C3_ThreeOutcomes ==
    \A r \in Dashboards :
        trace[r] # <<>> => C3_Outcome(r) = C3_Expected(req[r].authorization)

\* The registrations that had answered 201 with login r's email and
\* password before r arrived.
C4_Before(r) ==
    {o \in hist[r].prior : /\ req[o].email = req[r].email
                           /\ req[o].password = req[r].password}

\* C4 (as claimed): a login that arrives after a registration with the same
\* email and password answered 201 answers 200 with the static token.
C4_LoginAfterRegister ==
    \A r \in Logins :
        Done(r) /\ C4_Before(r) # {} =>
            Answered(r, 200) /\ resp[r][1].token = ADMIN_TOKEN_DUMMY

\* C4 (amended): such a login answers 200 with the static token unless its
\* SELECT fails, and then it answers 500; it never answers 401.
C4_LoginAfterRegisterUnlessStoreFails ==
    \A r \in Logins :
        Done(r) /\ C4_Before(r) # {} =>
            IF Has(trace[r], "selectAdminFailed")
            THEN Answered(r, 500)
            ELSE Answered(r, 200) /\ resp[r][1].token = ADMIN_TOKEN_DUMMY

\* C4 witness: a login answered 200 after its registration and after a
\* registration of another admin.
C4_Witness ==
    \E r \in Logins :
        /\ Answered(r, 200)
        /\ C4_Before(r) # {}
        /\ \E o \in AdminRegs : Answered(o, 201) /\ req[o].email # req[r].email

\* C5: a login that found no row and a login that found a row with another
\* hash have the same answer, status 401 and body.
C5_Indistinguishable ==
    \A r1, r2 \in Logins :
        Has(trace[r1], "noRow") /\ Has(trace[r2], "mismatch") =>
            /\ resp[r1] = resp[r2]
            /\ Answered(r1, 401)
            /\ Len(resp[r1]) = 1

\* C5 witness: both kinds of failed login have happened.
C5_Witness ==
    \E r1, r2 \in Logins :
        Has(trace[r1], "noRow") /\ Has(trace[r2], "mismatch")

\* C6: a registration releases its connection exactly once when
\* getConnection succeeded, on every exit path, and holds none once it has
\* finished; when getConnection failed it attempts no rollback and no
\* release; when no request is in flight no connection is checked out.
C6_Released ==
    /\ \A r \in Registrations :
         /\ Count(trace[r], "release") <= 1
         /\ Has(trace[r], "release") => Done(r) /\ Has(trace[r], "getConnection")
         /\ Done(r) =>
              /\ ~connection[r]
              /\ Has(trace[r], "getConnection") => Count(trace[r], "release") = 1
         /\ Has(trace[r], "getConnectionFailed") =>
              /\ ~Has(trace[r], "rollback")
              /\ ~Has(trace[r], "rollbackFailed")
              /\ ~Has(trace[r], "release")
         /\ connection[r] <=> (Has(trace[r], "getConnection") /\ ~Done(r))
    /\ (\A r \in Reqs : pc[r] \in {"idle", "done"}) => CheckedOut = 0

\* C6 witness: two registrations have finished, one with a 201 and one
\* whose rollback failed, each after acquiring a connection.
C6_Witness ==
    \E r1, r2 \in Registrations :
        /\ Done(r1) /\ Answered(r1, 201) /\ Has(trace[r1], "release")
        /\ Done(r2) /\ Has(trace[r2], "rollbackFailed") /\ Has(trace[r2], "release")

\* C7 (as claimed): a failed registration that is answered is answered 409
\* exactly when the INSERT into users met a taken email, and 500 otherwise.
C7_ErrorMapping ==
    \A r \in Registrations :
        Done(r) /\ resp[r] # <<>> /\ ~Answered(r, 201) /\ ~Answered(r, 400) =>
            IF Has(trace[r], "insertUserFailed") /\ err[r] = "ER_DUP_ENTRY"
            THEN Answered(r, 409)
            ELSE Answered(r, 500)

\* C8 (as claimed): a finished registration has received exactly one
\* response, 201, 400, 409 or 500; a 409 or 500 of a request that had
\* acquired its connection comes after the completed rollback; no step ran
\* twice.
C8_Surfaced ==
    \A r \in Registrations :
        /\ Done(r) =>
             /\ Len(resp[r]) = 1
             /\ resp[r][1].status \in {201, 400, 409, 500}
        /\ (Answered(r, 409) \/ Answered(r, 500)) /\ Has(trace[r], "getConnection") =>
             /\ Has(trace[r], "rollback")
             /\ First(trace[r], "rollback") < First(trace[r], "respond")
        /\ \A i, j \in DOMAIN trace[r] : trace[r][i] = trace[r][j] => i = j

\* The finished, well-formed registrations of an admin email.
C9_For(email) ==
    {r \in AdminRegs : Done(r) /\ req[r].email = email /\ req[r].password # ""}

C9_Emails == {req[r].email : r \in AdminRegs} \ {""}

\* C9 (as claimed): at most one row per email; of the finished requests that
\* register one email exactly one answered 201 and every other answered 409.
C9_Uniqueness ==
    \A e \in C9_Emails :
        /\ Cardinality({row \in admins : row.email = e}) <= 1
        /\ C9_For(e) # {} =>
             /\ Cardinality({r \in C9_For(e) : Answered(r, 201)}) = 1
             /\ \A r \in C9_For(e) : Answered(r, 201) \/ Answered(r, 409)

\* C9 (amended): at most one row per email; of the requests that register
\* one email at most one answered 201, and there is a row exactly when one
\* did; every other finished one answered 409, or 500 when its INSERT failed
\* for another reason than the unique index; the row keeps the hash of the
\* password of the request that answered 201.
C9_UniquenessUnlessStoreFails ==
    \A e \in C9_Emails :
        LET rows == {row \in admins : row.email = e}
            ok   == {r \in C9_For(e) : Answered(r, 201)}
        IN  /\ Cardinality(rows) <= 1
            /\ Cardinality(ok) = Cardinality(rows)
            /\ \A r \in C9_For(e) :
                 \/ r \in ok
                 \/ Answered(r, 409) /\ err[r] = "ER_DUP_ENTRY" /\ rows # {}
                 \/ Answered(r, 500) /\ err[r] = "OTHER"
            /\ \A r \in ok : \A row \in rows :
                 row.password_hash = password_hash[r]

\* C9 witness: two requests with different passwords have registered one
\* email; one answered 201, the other 409.
C9_Witness ==
    \E r1, r2 \in AdminRegs :
        /\ req[r1].email = req[r2].email
        /\ req[r1].password # req[r2].password
        /\ Answered(r1, 201)
        /\ Answered(r2, 409)

\* The keys of a 200 dashboard answer whose user is not in its users list.
C10_Orphans(r) ==
    {k \in resp[r][1].keys : ~\E u \in resp[r][1].users : u.id = k.user_id}

\* C10 (as claimed): every key of a 200 dashboard answer has its user in the
\* answer's users list.
C10_Consistent ==
    \A r \in Dashboards : Answered(r, 200) => C10_Orphans(r) = {}

\* C10 (amended): every key of a 200 dashboard answer has a user that is
\* committed in the store, and has its user in the answer's users list
\* whenever no registration committed between the handler's two queries.
C10_ConsistentWithoutCommitBetween ==
    \A r \in Dashboards :
        Answered(r, 200) =>
            /\ \A k \in resp[r][1].keys : \E u \in users : u.id = k.user_id
            /\ ~hist[r].skew => C10_Orphans(r) = {}

\* C10 witness: a 200 dashboard answer lists a key, and a registration
\* committed between its two queries.
C10_Witness ==
    \E r \in Dashboards :
        Answered(r, 200) /\ resp[r][1].keys # {} /\ hist[r].skew

====
